---- MODULE Spec2Model ----
(***************************************************************************)
(* A model of the IPC backend of the OPSIS agent (src-tauri/src/ipc.rs).   *)
(*                                                                         *)
(* The only state the commands share is the data directory.  A file is     *)
(* missing, present but unreadable, present with text that is not JSON, or *)
(* present with a JSON text; a JSON text is represented by the             *)
(* serde_json::Value that from_str yields for it.  Strings are sequences   *)
(* of one-character strings, so that prefix tests, splitting and the       *)
(* byte-wise ordering of Rust's str are computed, not assumed.             *)
(* The clock counts whole hours since 1970-01-01T00:00:00Z.                *)
(***************************************************************************)
EXTENDS Integers, Sequences, FiniteSets, TLC

VARIABLES files, now, last, prev, nsubmit

vars == <<files, now, last, prev, nsubmit>>

(***************************************************************************)
(* Bounds of the model.                                                    *)
(***************************************************************************)
\* longest tickets array enumerated for the initial tickets.json
MaxLen == 1
\* number of manual submissions in one behaviour
MaxSubmit == 1
\* number of clock advances (hours) in one behaviour
MaxTick == 1
\* largest number of resources in the initial state-tracker.json
MaxResources == 2
\* how many tickets beyond the listing limit the large tickets.json holds
Extra == 1

(***************************************************************************)
(* Program constants.                                                      *)
(***************************************************************************)
\* result.truncate(100) in get_tickets
TicketLimit == 100
\* .take(20) in build_patterns
PatternLimit == 20
\* .take(10) in build_proactive_actions
ActionLimit == 10
\* chrono::Duration::hours(24) in clear_old_tickets
RetentionHours == 24
\* milliseconds in one hour, for timestamp_millis()
HourMillis == 60 * 60 * 1000
\* the hour at which a behaviour starts (1970-01-03T00:00:00Z)
Now0 == 2 * RetentionHours

(***************************************************************************)
(* Strings.                                                                *)
(***************************************************************************)
\* the characters used, in increasing byte order
AsciiOrder ==
  <<"+", "-", ".", "0", "1", "2", "3", "4", "5", "6", "7", "8", "9", ":",
    "A", "T", "Z", "a", "c", "d", "e", "f", "g", "i", "k", "l", "m", "n",
    "o", "p", "r", "s", "t", "u", "v", "w", "x", "z">>

AsciiRank ==
  [c \in {AsciiOrder[i] : i \in 1..Len(AsciiOrder)} |->
     CHOOSE i \in 1..Len(AsciiOrder) : AsciiOrder[i] = c]

Ord(c) == AsciiRank[c]

Min(S) == CHOOSE x \in S : \A y \in S : x <= y

\* the positions at which both strings have a character and they differ
Mismatches(a, b) ==
  {i \in 1..(IF Len(a) < Len(b) THEN Len(a) ELSE Len(b)) : a[i] # b[i]}

\* a < b for Rust str: byte-wise lexicographic order, a proper prefix first
StrLess(a, b) ==
  LET d == Mismatches(a, b)
  IN  IF d = {} THEN Len(a) < Len(b)
      ELSE Ord(a[Min(d)]) < Ord(b[Min(d)])

Digits == <<"0", "1", "2", "3", "4", "5", "6", "7", "8", "9">>

\* format!("{}", n) for a non-negative integer
RECURSIVE ToDigits(_)
ToDigits(n) ==
  IF n < 10 THEN <<Digits[n + 1]>>
  ELSE ToDigits(n \div 10) \o <<Digits[(n % 10) + 1]>>

Pad2(n) == <<Digits[(n \div 10) + 1], Digits[(n % 10) + 1]>>

\* DateTime<Utc>::to_rfc3339 of the instant h hours after the epoch
\* (h stays inside January 1970)
to_rfc3339(h) ==
  <<"1", "9", "7", "0", "-", "0", "1", "-">> \o Pad2(1 + (h \div 24))
    \o <<"T">> \o Pad2(h % 24)
    \o <<":", "0", "0", ":", "0", "0", "+", "0", "0", ":", "0", "0">>

\* the form the monitoring agent and the front-end write (Date.toISOString)
IsoZ(h) ==
  <<"1", "9", "7", "0", "-", "0", "1", "-">> \o Pad2(1 + (h \div 24))
    \o <<"T">> \o Pad2(h % 24)
    \o <<":", "0", "0", ":", "0", "0", ".", "0", "0", "0", "Z">>

\* the second ':'-separated segment of key, or key when it has no ':'
RECURSIVE SplitColon(_)
SplitColon(s) ==
  IF \A i \in 1..Len(s) : s[i] # ":" THEN <<s>>
  ELSE LET k == CHOOSE i \in 1..Len(s) :
                   s[i] = ":" /\ \A j \in 1..(i - 1) : s[j] # ":"
       IN  <<SubSeq(s, 1, k - 1)>> \o SplitColon(SubSeq(s, k + 1, Len(s)))

display_name_first_m(key) == SplitColon(key)[1]

display_name(key) ==
  IF Len(SplitColon(key)) >= 2 THEN SplitColon(key)[2] ELSE key

s_empty == <<>>
s_manual_dash == <<"m", "a", "n", "u", "a", "l", "-">>
s_manual == <<"m", "a", "n", "u", "a", "l">>
s_manual_review ==
  <<"m", "a", "n", "u", "a", "l", "-", "r", "e", "v", "i", "e", "w">>
s_open == <<"o", "p", "e", "n">>
s_resolved == <<"r", "e", "s", "o", "l", "v", "e", "d">>
s_success == <<"s", "u", "c", "c", "e", "s", "s">>
s_failed == <<"f", "a", "i", "l", "e", "d">>
s_critical == <<"c", "r", "i", "t", "i", "c", "a", "l">>
s_error == <<"e", "r", "r", "o", "r">>
s_warning == <<"w", "a", "r", "n", "i", "n", "g">>
s_info == <<"i", "n", "f", "o">>
s_ok == <<"o", "k">>
s_degrading == <<"d", "e", "g", "r", "a", "d", "i", "n", "g">>
s_stable == <<"s", "t", "a", "b", "l", "e">>
s_improving == <<"i", "m", "p", "r", "o", "v", "i", "n", "g">>
s_low == <<"l", "o", "w">>
s_Action == <<"A", "c", "t", "i", "o", "n">>
s_load == <<"l", "o", "a", "d">>
s_cpu_load == <<"c", "p", "u", ":", "l", "o", "a", "d">>
s_mem_load == <<"m", "e", "m", ":", "l", "o", "a", "d">>
s_disk == <<"d", "i", "s", "k">>

(***************************************************************************)
(* serde_json::Value and Option.                                           *)
(***************************************************************************)
Null == [ty |-> "null"]
Bool(b) == [ty |-> "bool", b |-> b]
Num(n) == [ty |-> "num", n |-> n]
Str(s) == [ty |-> "str", s |-> s]
Arr(a) == [ty |-> "arr", a |-> a]
Obj(o) == [ty |-> "obj", o |-> o]
None == [ty |-> "none"]

EmptyMap == [k \in {} |-> Null]

\* Value::get(key): None unless v is an object that has the key
get(v, k) == IF v.ty = "obj" /\ k \in DOMAIN v.o THEN v.o[k] ELSE None

as_str(v) == IF v.ty = "str" THEN v ELSE None
as_array(v) == IF v.ty = "arr" THEN v ELSE None
as_object(v) == IF v.ty = "obj" THEN v ELSE None
as_i64(v) == IF v.ty = "num" THEN v ELSE None
as_bool(v) == IF v.ty = "bool" THEN v ELSE None

\* Option<&str>::unwrap_or
str_or(x, d) == IF x = None THEN d ELSE x.s

\* Map::insert
insert(o, k, v) == [x \in (DOMAIN o) \cup {k} |-> IF x = k THEN v ELSE o[x]]

Count(s, Test(_)) == Len(SelectSeq(s, Test))

Take(s, n) == SubSeq(s, 1, IF Len(s) < n THEN Len(s) ELSE n)

(***************************************************************************)
(* The data directory.                                                     *)
(***************************************************************************)
Missing == [kind |-> "missing"]
Unreadable == [kind |-> "unreadable"]
NotJson == [kind |-> "text"]
Json(v) == [kind |-> "json", val |-> v]

FileNames ==
  {"tickets.json", "agent.config.json", "state-tracker.json",
   "pattern-detector.json", "pending-actions.json"}

\* std::fs::read_to_string(path).is_ok()
readable(f) == f.kind \in {"text", "json"}

\* Path::exists
exists(f) == f.kind # "missing"

\* serde_json::from_str of the content of a readable file
from_str(f) == IF f.kind = "json" THEN f.val ELSE None

read_json_file(fs, filename) ==
  IF readable(fs[filename]) THEN from_str(fs[filename]) ELSE None

\* std::fs::write(path, json): it creates or truncates the file and then
\* writes; a failure leaves the old file or a partial text
WriteOutcomes == {"ok", "fail_unchanged", "fail_partial"}

fs_write(fs, filename, v, outcome) ==
  CASE outcome = "ok" -> [fs EXCEPT ![filename] = Json(v)]
    [] outcome = "fail_unchanged" -> fs
    [] outcome = "fail_partial" -> [fs EXCEPT ![filename] = NotJson]

(***************************************************************************)
(* get_stats                                                               *)
(***************************************************************************)
\* data.get("tickets").and_then(|t| t.as_array())
tickets_array(data) == as_array(get(data, "tickets"))

status_of(t) == str_or(as_str(get(t, "status")), s_empty)
result_of(t) == str_or(as_str(get(t, "result")), s_empty)

is_active(t) == status_of(t) # s_resolved /\ result_of(t) # s_success

is_escalated(t) ==
  LET v == get(t, "escalated")
  IN  IF v = None THEN FALSE
      ELSE \/ (IF as_i64(v) = None THEN 0 ELSE v.n) = 1
           \/ (IF as_bool(v) = None THEN FALSE ELSE v.b)

is_success(t) == as_str(get(t, "result")) = Str(s_success)

has_result(t) == as_str(get(t, "result")) # None

success_rate_total_m(tickets) ==
  IF Count(tickets, has_result) > 0
  THEN (Count(tickets, is_success) * 100) \div Len(tickets)
  ELSE 0

success_rate(tickets) ==
  IF Count(tickets, has_result) > 0
  THEN (Count(tickets, is_success) * 100) \div Count(tickets, has_result)
  ELSE 0

stats_default ==
  [issuesDetected |-> 0, activeTickets |-> 0, issuesEscalated |-> 0,
   successRate |-> 0]

get_stats(fs) ==
  LET tickets == tickets_array(read_json_file(fs, "tickets.json"))
  IN  IF tickets = None THEN stats_default
      ELSE [issuesDetected |-> Len(tickets.a),
            activeTickets |-> Count(tickets.a, is_active),
            issuesEscalated |-> Count(tickets.a, is_escalated),
            successRate |-> success_rate(tickets.a)]

(***************************************************************************)
(* get_tickets                                                             *)
(***************************************************************************)
truncate_none_m(s, n) == s

truncate(s, n) == Take(s, n)

get_tickets(fs) ==
  LET tickets == tickets_array(read_json_file(fs, "tickets.json"))
  IN  IF tickets = None THEN <<>> ELSE truncate(tickets.a, TicketLimit)

(***************************************************************************)
(* clear_old_tickets                                                       *)
(***************************************************************************)
\* t.get("timestamp").or_else(|| t.get("created_at"))
\*    .and_then(|v| v.as_str()).unwrap_or("")
retain_ts(t) ==
  LET first == get(t, "timestamp")
      field == IF first # None THEN first ELSE get(t, "created_at")
  IN  str_or(as_str(field), s_empty)

cutoff_of(clock) == to_rfc3339(clock - RetentionHours)

\* ts >= cutoff.as_str()
retained(t, cutoff) == ~StrLess(retain_ts(t), cutoff)

retain(tickets, cutoff) == SelectSeq(tickets, LAMBDA t : retained(t, cutoff))

clear_old_tickets_stale_m(fs, clock) ==
  LET f == fs["tickets.json"]
      data == IF readable(f) THEN from_str(f) ELSE None
      tickets == tickets_array(data)
  IN  IF tickets = None THEN [ret |-> 0, write |-> None]
      ELSE [ret |-> Len(tickets.a) - Len(retain(tickets.a, cutoff_of(clock))),
            write |-> data]

\* the returned count and the document handed to std::fs::write (None when
\* the command returns before writing)
clear_old_tickets(fs, clock) ==
  LET f == fs["tickets.json"]
      data == IF readable(f) THEN from_str(f) ELSE None
      tickets == tickets_array(data)
  IN  IF tickets = None THEN [ret |-> 0, write |-> None]
      ELSE LET kept == retain(tickets.a, cutoff_of(clock))
           IN  [ret |-> Len(tickets.a) - Len(kept),
                write |-> Obj(insert(data.o, "tickets", Arr(kept)))]

(***************************************************************************)
(* submit_manual_ticket                                                    *)
(***************************************************************************)
EmptyTicketsDoc == Obj([tickets |-> Arr(<<>>)])

new_ticket(ticket, clock) ==
  Obj([ticket_id |-> Str(s_manual_dash \o ToDigits(clock * HourMillis)),
       timestamp |-> Str(ticket.submitted_at),
       type |-> Str(s_manual_review),
       issue_type |-> Str(ticket.category),
       description |-> Str(ticket.description),
       priority |-> Str(ticket.priority),
       status |-> Str(s_open),
       source |-> Str(s_manual),
       computer_name |-> Str(ticket.server_name)])

insert0_append_m(tickets, t) == tickets \o <<t>>

\* Vec::insert(0, t)
insert0(tickets, t) == <<t>> \o tickets

\* the document handed to std::fs::write
submit_manual_ticket(fs, ticket, clock) ==
  LET f == fs["tickets.json"]
      parsed == IF readable(f) THEN from_str(f) ELSE None
      data == IF parsed = None THEN EmptyTicketsDoc ELSE parsed
      tickets == tickets_array(data)
  IN  IF tickets = None THEN data
      ELSE Obj(insert(data.o, "tickets",
                      Arr(insert0(tickets.a, new_ticket(ticket, clock)))))

(***************************************************************************)
(* update_settings and get_settings                                        *)
(***************************************************************************)
SettingsKeys ==
  <<"serverUrl", "monitorInterval", "alertEmail", "logRetention",
    "confidenceThreshold">>

RECURSIVE merge_settings(_, _, _)
merge_settings(o, settings, i) ==
  IF i > Len(SettingsKeys) THEN o
  ELSE LET k == SettingsKeys[i]
       IN  merge_settings(IF settings[k] = None THEN o
                          ELSE insert(o, k, settings[k]),
                          settings, i + 1)

load_config_fresh_m(fs) == Obj(EmptyMap)

\* the Value that update_settings starts from
load_config(fs) ==
  LET f == fs["agent.config.json"]
      parsed == IF readable(f) THEN from_str(f) ELSE None
  IN  IF exists(f) /\ parsed # None THEN parsed ELSE Obj(EmptyMap)

\* config.as_object_mut().unwrap() panics unless config is an object
update_settings(fs, settings) ==
  LET config == load_config(fs)
  IN  IF as_object(config) = None THEN [panic |-> TRUE, write |-> None]
      ELSE [panic |-> FALSE,
            write |-> Obj(merge_settings(config.o, settings, 1))]

get_settings_null_m(fs) ==
  LET data == read_json_file(fs, "agent.config.json")
  IN  IF data = None THEN Null ELSE data

get_settings(fs) ==
  LET data == read_json_file(fs, "agent.config.json")
  IN  IF data = None THEN Obj(EmptyMap) ELSE data

(***************************************************************************)
(* get_health_data                                                         *)
(***************************************************************************)
\* the orders in which a serde_json::Map may be iterated: sorted by key or
\* in insertion order, depending on the build; every order is allowed here
IterOrders(m) ==
  IF m = None THEN {<<>>}
  ELSE {s \in [1..Cardinality(DOMAIN m.o) -> DOMAIN m.o] :
          \A i, j \in DOMAIN s : i # j => s[i] # s[j]}

score_of(severity) ==
  CASE severity = s_critical -> 20
    [] severity = s_error -> 40
    [] severity = s_warning -> 65
    [] OTHER -> 100

trend_of(state) ==
  CASE state \in {s_critical, s_error} -> s_degrading
    [] state = s_warning -> s_stable
    [] OTHER -> s_improving

health_entry(resource) ==
  Obj([score |-> Num(score_of(str_or(as_str(get(resource, "severityLevel")),
                                     s_info))),
       trend |-> Str(trend_of(str_or(as_str(get(resource, "currentState")),
                                     s_ok)))])

RECURSIVE scores_fold(_, _, _, _)
scores_fold(resources, order, i, scores) ==
  IF i > Len(order) THEN scores
  ELSE scores_fold(resources, order, i + 1,
                   insert(scores, display_name(order[i]),
                          health_entry(resources[order[i]])))

tracker_resources(fs) ==
  as_object(get(read_json_file(fs, "state-tracker.json"), "resources"))

build_health_scores(fs, order) ==
  LET resources == tracker_resources(fs)
  IN  IF resources = None THEN Obj(EmptyMap)
      ELSE Obj(scores_fold(resources.o, order, 1, EmptyMap))

num_or(x, d) == IF x = None THEN d ELSE x.n

pattern_entry(key, val) ==
  Obj([patternId |-> Str(key),
       signalId |-> Str(key),
       occurrenceCount |-> Num(num_or(as_i64(get(val, "occurrenceCount")), 0)),
       trend |-> Str(str_or(as_str(get(val, "trend")), s_stable)),
       frequency |-> Num(num_or(as_i64(get(val, "frequency")), 0)),
       urgency |-> Str(str_or(as_str(get(val, "urgency")), s_low)),
       recommendation |->
         Str(str_or(as_str(get(val, "recommendation")), s_empty))])

detector_patterns(fs) ==
  as_object(get(read_json_file(fs, "pattern-detector.json"), "patterns"))

build_patterns(fs, order) ==
  LET patterns == detector_patterns(fs)
  IN  IF patterns = None THEN <<>>
      ELSE LET taken == Take(order, PatternLimit)
           IN  [i \in 1..Len(taken) |->
                  pattern_entry(taken[i], patterns.o[taken[i]])]

action_entry(a) ==
  Obj([title |-> Str(str_or(as_str(get(a, "signature_id")), s_Action)),
       urgency |->
         Str(str_or(as_str(get(get(a, "signature"), "severity")), s_low)),
       reasoning |-> Str(str_or(as_str(get(a, "server_message")), s_empty))])

build_proactive_actions(fs) ==
  LET actions ==
        as_array(get(read_json_file(fs, "pending-actions.json"),
                     "pending_actions"))
  IN  IF actions = None THEN <<>>
      ELSE LET taken == Take(actions.a, ActionLimit)
           IN  [i \in 1..Len(taken) |-> action_entry(taken[i])]

get_health_data(fs, rorder, porder) ==
  [healthScores |-> build_health_scores(fs, rorder),
   correlations |-> Obj(EmptyMap),
   patterns |-> build_patterns(fs, porder),
   proactiveActions |-> build_proactive_actions(fs)]

(***************************************************************************)
(* The contents the data directory starts with.  The files are written by  *)
(* the monitoring agent, so they are arbitrary.                            *)
(***************************************************************************)
SampleTickets ==
  { Obj([ticket_id |-> Str(<<"a">>), timestamp |-> Str(to_rfc3339(10)),
         created_at |-> Str(IsoZ(47)), status |-> Str(s_resolved),
         result |-> Str(s_success), escalated |-> Num(1)]),
    Obj([ticket_id |-> Str(<<"c">>), timestamp |-> Str(IsoZ(24)),
         status |-> Str(s_open), escalated |-> Bool(TRUE)]),
    Obj([ticket_id |-> Str(<<"d">>), created_at |-> Str(IsoZ(47)),
         status |-> Str(s_open), result |-> Str(s_failed)]),
    Obj([ticket_id |-> Str(<<"e">>), status |-> Str(s_open),
         result |-> Str(s_success)]),
    Obj([ticket_id |-> Str(<<"f">>), timestamp |-> Num(5),
         created_at |-> Str(IsoZ(47)), result |-> Num(1),
         escalated |-> Num(0)]),
    Obj([ticket_id |-> Str(<<"i">>), timestamp |-> Str(to_rfc3339(24)),
         status |-> Str(s_resolved), result |-> Str(s_failed)]) }

\* one array with every kind of ticket, and an element that is no object
MixedTickets ==
  <<Obj([ticket_id |-> Str(<<"d">>), created_at |-> Str(IsoZ(47)),
         status |-> Str(s_open), result |-> Str(s_failed)]),
    Obj([ticket_id |-> Str(<<"a">>), timestamp |-> Str(to_rfc3339(10)),
         created_at |-> Str(IsoZ(47)), status |-> Str(s_resolved),
         result |-> Str(s_success), escalated |-> Num(1)]),
    Obj([ticket_id |-> Str(<<"c">>), timestamp |-> Str(IsoZ(24)),
         status |-> Str(s_open), escalated |-> Bool(TRUE)]),
    Obj([ticket_id |-> Str(<<"i">>), timestamp |-> Str(to_rfc3339(24)),
         status |-> Str(s_resolved)]),
    Obj([ticket_id |-> Str(<<"f">>), timestamp |-> Num(5),
         created_at |-> Str(IsoZ(47)), result |-> Num(1),
         escalated |-> Num(0)]),
    Obj([ticket_id |-> Str(<<"e">>), status |-> Str(s_open),
         result |-> Str(s_success)]),
    Null>>

TicketArrays ==
  UNION {[1..n -> SampleTickets] : n \in 0..MaxLen} \cup {MixedTickets}

LargeTickets ==
  [i \in 1..(TicketLimit + Extra) |->
     Obj([ticket_id |-> Str(ToDigits(i)), status |-> Str(s_open)])]

TicketFiles ==
  {Missing, Unreadable, NotJson, Json(Null), Json(Arr(<<>>)),
   Json(Obj(EmptyMap)), Json(Obj([version |-> Num(1)])),
   Json(Obj([tickets |-> Str(s_empty)])),
   Json(Obj([tickets |-> Obj(EmptyMap), version |-> Num(1)])),
   Json(Obj([tickets |-> Arr(LargeTickets)]))}
  \cup {Json(Obj([tickets |-> Arr(a)])) : a \in TicketArrays}
  \cup {Json(Obj([tickets |-> Arr(a), version |-> Num(1)])) :
          a \in {b \in TicketArrays : Len(b) <= 1 \/ b = MixedTickets}}

ManualTickets ==
  {[server_name |-> <<"s">>, category |-> <<"c">>, description |-> <<"d">>,
    priority |-> s_low, submitted_at |-> at] : at \in {IsoZ(Now0), s_empty}}

ConfigFiles ==
  {Missing, Unreadable, NotJson, Json(Null), Json(Arr(<<>>)),
   Json(Str(<<"u">>)), Json(Num(1)), Json(Obj(EmptyMap)),
   Json(Obj([alertEmail |-> Str(<<"o">>), theme |-> Str(<<"d">>)])),
   Json(Obj([monitorInterval |-> Num(5), serverUrl |-> Null,
             theme |-> Arr(<<Num(1)>>)]))}

Supplied ==
  [serverUrl |-> Str(<<"u">>), monitorInterval |-> Num(30),
   alertEmail |-> Str(<<"n">>), logRetention |-> Num(7),
   confidenceThreshold |-> Num(80)]

\* the partial updates tried: no field, any one field, or every field
SettingsUpdates ==
  {[k \in DOMAIN Supplied |-> IF k \in ks THEN Supplied[k] ELSE None] :
     ks \in {{}, DOMAIN Supplied} \cup {{k} : k \in DOMAIN Supplied}}

ResourceKeys == {s_cpu_load, s_mem_load, s_disk}

ResourceEntries ==
  { Obj([severityLevel |-> Str(s_critical)]),
    Obj([severityLevel |-> Str(s_critical), currentState |-> Str(s_critical)]),
    Obj([severityLevel |-> Str(s_critical), currentState |-> Str(s_error)]),
    Obj([severityLevel |-> Str(s_warning), currentState |-> Str(s_warning)]),
    Obj([severityLevel |-> Num(1), currentState |-> Str(s_ok)]),
    Null }

ResourceMaps ==
  UNION {[ks -> ResourceEntries] :
           ks \in {k \in SUBSET ResourceKeys : Cardinality(k) <= MaxResources}}

TrackerFiles ==
  {Missing, Unreadable, NotJson, Json(Arr(<<>>)), Json(Obj(EmptyMap)),
   Json(Obj([resources |-> Arr(<<>>)]))}
  \cup {Json(Obj([resources |-> Obj(m)])) : m \in ResourceMaps}

SamplePattern ==
  Obj([occurrenceCount |-> Num(3), trend |-> Str(s_degrading),
       frequency |-> Num(2), urgency |-> Num(1)])

PatternFiles ==
  {Missing, NotJson, Json(Obj(EmptyMap)),
   Json(Obj([patterns |-> Arr(<<>>)])),
   Json(Obj([patterns |-> Obj(s_disk :> SamplePattern @@ s_load :> Null)]))}

SampleAction ==
  Obj([signature_id |-> Str(s_disk),
       signature |-> Obj([severity |-> Str(s_critical)]),
       server_message |-> Num(1)])

PendingFiles ==
  {Missing, NotJson, Json(Obj(EmptyMap)),
   Json(Obj([pending_actions |-> Obj(EmptyMap)])),
   Json(Obj([pending_actions |->
               Arr([i \in 1..(ActionLimit + Extra) |->
                      IF i = 2 THEN Null ELSE SampleAction])]))}

(***************************************************************************)
(* The commands.  last records the most recent call: the command, its      *)
(* argument, what it returned, the data directory and the clock it ran     *)
(* with, and the outcome of its write ("none": no write).                  *)
(***************************************************************************)
NoCall ==
  [op |-> "none", arg |-> Null, ret |-> Null, pre |-> <<>>, clock |-> 0,
   wr |-> "none"]

Call(op, arg, ret, wr) ==
  [op |-> op, arg |-> arg, ret |-> ret, pre |-> files, clock |-> now,
   wr |-> wr]

Panic == [ty |-> "panic"]

\* prev keeps the call before last when that call was one whose effect a
\* later call is compared with
Remembered(call) ==
  IF call.op \in {"clear_old_tickets", "update_settings"} THEN call
  ELSE NoCall

Record(call) == last' = call /\ prev' = Remembered(last)

GetStats ==
  /\ Record(Call("get_stats", Null, get_stats(files), "none"))
  /\ UNCHANGED <<files, now, nsubmit>>

GetTickets ==
  /\ Record(Call("get_tickets", Null, get_tickets(files), "none"))
  /\ UNCHANGED <<files, now, nsubmit>>

ClearOldTickets ==
  LET r == clear_old_tickets(files, now)
  IN  /\ \E outcome \in WriteOutcomes :
           LET wr == IF r.write = None THEN "none" ELSE outcome
           IN  /\ files' = IF r.write = None THEN files
                           ELSE fs_write(files, "tickets.json", r.write, wr)
               /\ Record(Call("clear_old_tickets", Null, r.ret, wr))
      /\ UNCHANGED <<now, nsubmit>>

SubmitManualTicket ==
  /\ nsubmit < MaxSubmit
  /\ \E ticket \in ManualTickets, outcome \in WriteOutcomes :
       /\ files' = fs_write(files, "tickets.json",
                            submit_manual_ticket(files, ticket, now), outcome)
       /\ Record(Call("submit_manual_ticket", ticket, Bool(outcome = "ok"),
                      outcome))
  /\ nsubmit' = nsubmit + 1
  /\ UNCHANGED now

UpdateSettings ==
  /\ \E settings \in SettingsUpdates, outcome \in WriteOutcomes :
       LET r == update_settings(files, settings)
       IN  IF r.panic
           THEN /\ files' = files
                /\ Record(Call("update_settings", settings, Panic, "none"))
           ELSE /\ files' = fs_write(files, "agent.config.json", r.write,
                                     outcome)
                /\ Record(Call("update_settings", settings,
                               Bool(outcome = "ok"), outcome))
  /\ UNCHANGED <<now, nsubmit>>

GetSettings ==
  /\ Record(Call("get_settings", Null, get_settings(files), "none"))
  /\ UNCHANGED <<files, now, nsubmit>>

GetHealthData ==
  /\ \E rorder \in IterOrders(tracker_resources(files)),
        porder \in IterOrders(detector_patterns(files)) :
       Record(Call("get_health_data", <<rorder, porder>>,
                   get_health_data(files, rorder, porder), "none"))
  /\ UNCHANGED <<files, now, nsubmit>>

\* real time passes
Tick ==
  /\ now < Now0 + MaxTick
  /\ now' = now + 1
  /\ UNCHANGED <<files, last, prev, nsubmit>>

AllMissing == [f \in FileNames |-> Missing]

InitCommon ==
  /\ now = Now0
  /\ last = NoCall
  /\ prev = NoCall
  /\ nsubmit = 0

InitTickets ==
  /\ \E f \in TicketFiles : files = [AllMissing EXCEPT !["tickets.json"] = f]
  /\ InitCommon

InitSettings ==
  /\ \E f \in ConfigFiles :
       files = [AllMissing EXCEPT !["agent.config.json"] = f]
  /\ InitCommon

InitHealth ==
  /\ \E t \in TrackerFiles, p \in PatternFiles, a \in PendingFiles :
       files = [AllMissing EXCEPT !["state-tracker.json"] = t,
                                  !["pattern-detector.json"] = p,
                                  !["pending-actions.json"] = a]
  /\ InitCommon

NextTickets ==
  \/ GetStats
  \/ GetTickets
  \/ ClearOldTickets
  \/ SubmitManualTicket
  \/ Tick

NextSettings ==
  \/ UpdateSettings
  \/ GetSettings

NextHealth == GetHealthData

ReadTicketFiles ==
  {Missing, Unreadable, NotJson, Json(Arr(<<>>)), Json(Obj(EmptyMap)),
   Json(Obj([tickets |-> Str(s_empty)])),
   Json(Obj([tickets |-> Arr(MixedTickets)]))}

ReadConfigFiles ==
  {Missing, Unreadable, NotJson, Json(Arr(<<>>)),
   Json(Obj([alertEmail |-> Str(<<"o">>), theme |-> Str(<<"d">>)]))}

ReadTrackerFiles ==
  {Missing, Unreadable, NotJson, Json(Arr(<<>>)), Json(Obj(EmptyMap)),
   Json(Obj([resources |-> Arr(<<>>)])),
   Json(Obj([resources |->
               Obj(s_cpu_load :> Obj([severityLevel |-> Str(s_critical)])
                   @@ s_disk :> Null)]))}

InitRead ==
  /\ \E t \in ReadTicketFiles, c \in ReadConfigFiles, r \in ReadTrackerFiles,
        p \in PatternFiles, a \in PendingFiles :
       files = [AllMissing EXCEPT !["tickets.json"] = t,
                                  !["agent.config.json"] = c,
                                  !["state-tracker.json"] = r,
                                  !["pattern-detector.json"] = p,
                                  !["pending-actions.json"] = a]
  /\ InitCommon

NextRead ==
  \/ GetStats
  \/ GetTickets
  \/ GetSettings
  \/ GetHealthData

\* the ticket commands over an arbitrary tickets.json
SpecTickets == InitTickets /\ [][NextTickets]_vars

\* the settings commands over an arbitrary agent.config.json
SpecSettings == InitSettings /\ [][NextSettings]_vars

\* the health view over arbitrary monitoring files
SpecHealth == InitHealth /\ [][NextHealth]_vars

\* the read commands over every combination of missing, unreadable,
\* malformed and well-formed files
SpecRead == InitRead /\ [][NextRead]_vars

(***************************************************************************)
(* The claims.  They are stated over the recorded calls with their own     *)
(* reading of a document: a field counts only when it holds a string.      *)
(***************************************************************************)
TicketsFile == files["tickets.json"]
TicketsBefore == last.pre["tickets.json"]

IsObject(f) == f.kind = "json" /\ f.val.ty = "obj"

\* the file holds a JSON object whose field k is an array
HoldsArray(f, k) ==
  /\ IsObject(f)
  /\ k \in DOMAIN f.val.o
  /\ f.val.o[k].ty = "arr"

HasString(t, k) == t.ty = "obj" /\ k \in DOMAIN t.o /\ t.o[k].ty = "str"

StringField(t, k) == IF HasString(t, k) THEN t.o[k].s ELSE <<>>

IsManualRecord(t) ==
  /\ HasString(t, "ticket_id")
  /\ Len(t.o.ticket_id.s) > 7
  /\ SubSeq(t.o.ticket_id.s, 1, 7) = <<"m", "a", "n", "u", "a", "l", "-">>
  /\ StringField(t, "status") = <<"o", "p", "e", "n">>
  /\ StringField(t, "source") = <<"m", "a", "n", "u", "a", "l">>

SubmitSucceeded ==
  last.op = "submit_manual_ticket" /\ last.ret = Bool(TRUE)

\* C1: a successful submitManualTicket on a tickets.json that holds an object
\* with a tickets array T leaves the array [n] followed by T, n a record whose
\* ticket_id starts with "manual-", with status "open" and source "manual",
\* and leaves every other top-level key as it was.
C1_SubmitPrepends ==
  (SubmitSucceeded /\ HoldsArray(TicketsBefore, "tickets")) =>
    /\ HoldsArray(TicketsFile, "tickets")
    /\ LET T == TicketsBefore.val.o.tickets.a
           A == TicketsFile.val.o.tickets.a
       IN  /\ Len(A) = Len(T) + 1
           /\ \A i \in 1..Len(T) : A[i + 1] = T[i]
           /\ IsManualRecord(A[1])
    /\ DOMAIN TicketsFile.val.o = DOMAIN TicketsBefore.val.o
    /\ \A k \in DOMAIN TicketsBefore.val.o \ {"tickets"} :
         TicketsFile.val.o[k] = TicketsBefore.val.o[k]

C1_Witness ==
  /\ SubmitSucceeded
  /\ HoldsArray(TicketsBefore, "tickets")
  /\ Len(TicketsBefore.val.o.tickets.a) >= 2
  /\ "version" \in DOMAIN TicketsBefore.val.o

\* C2: a successful submitManualTicket on a tickets.json with no tickets array
\* (missing, unreadable, not JSON, or JSON without an array under "tickets")
\* leaves a tickets array whose first element is the new ticket.
C2_SubmitCreatesArray ==
  (SubmitSucceeded /\ ~HoldsArray(TicketsBefore, "tickets")) =>
    /\ HoldsArray(TicketsFile, "tickets")
    /\ Len(TicketsFile.val.o.tickets.a) >= 1
    /\ IsManualRecord(TicketsFile.val.o.tickets.a[1])

\* the timestamp a ticket is judged by: timestamp, else created_at, else ""
ClaimedTimestamp(t) ==
  IF HasString(t, "timestamp") THEN t.o.timestamp.s
  ELSE IF HasString(t, "created_at") THEN t.o.created_at.s
  ELSE <<>>

\* the positions of the tickets of T that are not older than the cutoff
Fresh(T, clock) ==
  {i \in 1..Len(T) : ~StrLess(ClaimedTimestamp(T[i]), to_rfc3339(clock - 24))}

\* C3: clearOldTickets (its write-back done) removes exactly the tickets whose
\* timestamp, falling back to created_at, falling back to "", is less than the
\* cutoff, keeps the others unmodified and in order, and returns the number
\* removed.
C3_ClearRemovesExactlyOld ==
  (/\ last.op = "clear_old_tickets"
   /\ last.wr = "ok"
   /\ HoldsArray(TicketsBefore, "tickets")) =>
    LET T == TicketsBefore.val.o.tickets.a
    IN  /\ HoldsArray(TicketsFile, "tickets")
        /\ TicketsFile.val.o.tickets.a
             = SelectSeq(T, LAMBDA t :
                 ~StrLess(ClaimedTimestamp(t), to_rfc3339(last.clock - 24)))
        /\ last.ret = Len(T) - Cardinality(Fresh(T, last.clock))

ClearedTwice ==
  /\ prev.op = "clear_old_tickets"
  /\ last.op = "clear_old_tickets"
  /\ prev.clock = last.clock

\* C4 as claimed: clearOldTickets run twice with the same cutoff returns 0 the
\* second time, whatever the outcome of the first call's write-back.
C4_SecondClearReturnsZero == ClearedTwice => last.ret = 0

\* C4 as amended: clearOldTickets run twice with the same cutoff returns 0 the
\* second time, unless the first call's write-back failed and left the file as
\* it was; then the second call returns what the first returned.
C4_SecondClearAfterWrite ==
  ClearedTwice =>
    IF prev.wr = "fail_unchanged" THEN last.ret = prev.ret ELSE last.ret = 0

C4_Witness == ClearedTwice /\ prev.wr = "ok" /\ prev.ret > 0

ConfigBefore == prev.pre["agent.config.json"]

UpdatedThenRead ==
  /\ prev.op = "update_settings"
  /\ prev.ret = Bool(TRUE)
  /\ last.op = "get_settings"

SuppliedKeys(update) == {k \in DOMAIN update : update[k] # None}

\* C5: after an updateSettings that returns true, getSettings returns a
\* document in which each supplied field has the supplied value and every
\* other key of the stored document still has its previous value; when the
\* file was absent the document holds exactly the supplied fields.
C5_UpdateMergesSettings ==
  UpdatedThenRead =>
    /\ last.ret.ty = "obj"
    /\ \A k \in SuppliedKeys(prev.arg) :
         k \in DOMAIN last.ret.o /\ last.ret.o[k] = prev.arg[k]
    /\ IsObject(ConfigBefore) =>
         \A k \in DOMAIN ConfigBefore.val.o \ SuppliedKeys(prev.arg) :
           k \in DOMAIN last.ret.o /\ last.ret.o[k] = ConfigBefore.val.o[k]
    /\ ConfigBefore.kind = "missing" =>
         DOMAIN last.ret.o = SuppliedKeys(prev.arg)

C5_Witness ==
  /\ UpdatedThenRead
  /\ IsObject(ConfigBefore)
  /\ "theme" \in DOMAIN ConfigBefore.val.o
  /\ "alertEmail" \in DOMAIN ConfigBefore.val.o
  /\ SuppliedKeys(prev.arg) = {"monitorInterval"}

\* C6: updateSettings always completes by returning a boolean, whatever
\* agent.config.json held.
C6_UpdateReturnsBoolean ==
  last.op = "update_settings" => last.ret \in {Bool(TRUE), Bool(FALSE)}

\* C7: over a tickets array T getStats returns issuesDetected = |T|,
\* activeTickets = the number of tickets with status # "resolved" and
\* result # "success", at most issuesDetected, and successRate =
\* floor(100 * successes / tickets with a result), or 0 when no ticket has a
\* result, so between 0 and 100.
C7_StatsLaw ==
  (last.op = "get_stats" /\ HoldsArray(TicketsBefore, "tickets")) =>
    LET T == TicketsBefore.val.o.tickets.a
        active == {i \in 1..Len(T) :
                     /\ StringField(T[i], "status")
                          # <<"r", "e", "s", "o", "l", "v", "e", "d">>
                     /\ StringField(T[i], "result")
                          # <<"s", "u", "c", "c", "e", "s", "s">>}
        judged == {i \in 1..Len(T) : HasString(T[i], "result")}
        won == {i \in judged :
                  T[i].o.result.s = <<"s", "u", "c", "c", "e", "s", "s">>}
        rate == last.ret.successRate
    IN  /\ last.ret.issuesDetected = Len(T)
        /\ last.ret.activeTickets = Cardinality(active)
        /\ last.ret.activeTickets <= last.ret.issuesDetected
        /\ rate \in 0..100
        /\ IF judged = {} THEN rate = 0
           ELSE /\ rate * Cardinality(judged) <= 100 * Cardinality(won)
                /\ 100 * Cardinality(won) < (rate + 1) * Cardinality(judged)

C7_Witness ==
  /\ last.op = "get_stats"
  /\ HoldsArray(TicketsBefore, "tickets")
  /\ last.ret.successRate = 66
  /\ last.ret.activeTickets = 4
  /\ last.ret.issuesDetected = 7

\* the file is missing, unreadable or not JSON, or it is JSON without a
\* field k of the type ty
Lacks(f, k, ty) ==
  \/ f.kind # "json"
  \/ f.val.ty # "obj"
  \/ k \notin DOMAIN f.val.o
  \/ f.val.o[k].ty # ty

ReadCommands == {"get_stats", "get_tickets", "get_settings", "get_health_data"}

\* C8: every read command is total.  When its file is missing, not JSON, or
\* lacks the expected field or has it with the wrong type, getStats returns
\* four zeros, getTickets an empty sequence, getSettings (file absent or
\* unreadable) an empty object, getHealthData empty healthScores, patterns and
\* proactiveActions with correlations an empty object; none writes a file.
C8_ReadsAreTotal ==
  /\ (last.op = "get_stats" /\ Lacks(TicketsBefore, "tickets", "arr")) =>
       last.ret = [issuesDetected |-> 0, activeTickets |-> 0,
                   issuesEscalated |-> 0, successRate |-> 0]
  /\ (last.op = "get_tickets" /\ Lacks(TicketsBefore, "tickets", "arr")) =>
       last.ret = <<>>
  /\ (last.op = "get_settings"
        /\ last.pre["agent.config.json"].kind # "json") =>
       last.ret = [ty |-> "obj", o |-> <<>>]
  /\ last.op = "get_health_data" =>
       /\ Lacks(last.pre["state-tracker.json"], "resources", "obj") =>
            last.ret.healthScores = [ty |-> "obj", o |-> <<>>]
       /\ Lacks(last.pre["pattern-detector.json"], "patterns", "obj") =>
            last.ret.patterns = <<>>
       /\ Lacks(last.pre["pending-actions.json"], "pending_actions", "arr") =>
            last.ret.proactiveActions = <<>>
       /\ last.ret.correlations = [ty |-> "obj", o |-> <<>>]
  /\ last.op \in ReadCommands => files = last.pre

C8_Witness ==
  /\ last.op = "get_settings"
  /\ last.pre["agent.config.json"].kind = "unreadable"
  /\ last.pre["tickets.json"].kind = "text"
  /\ IsObject(last.pre["state-tracker.json"])
  /\ "resources" \notin DOMAIN last.pre["state-tracker.json"].val.o

ResourcesBefore == last.pre["state-tracker.json"].val.o.resources.o

\* state-tracker.json has a resource "cpu:load" with severityLevel "critical"
CriticalCpuLoad ==
  /\ last.op = "get_health_data"
  /\ ~Lacks(last.pre["state-tracker.json"], "resources", "obj")
  /\ <<"c", "p", "u", ":", "l", "o", "a", "d">> \in DOMAIN ResourcesBefore
  /\ StringField(ResourcesBefore[<<"c", "p", "u", ":", "l", "o", "a", "d">>],
                 "severityLevel")
       = <<"c", "r", "i", "t", "i", "c", "a", "l">>

LoadIsDegrading ==
  /\ <<"l", "o", "a", "d">> \in DOMAIN last.ret.healthScores.o
  /\ last.ret.healthScores.o[<<"l", "o", "a", "d">>]
       = [ty |-> "obj",
          o |-> [score |-> [ty |-> "num", n |-> 20],
                 trend |-> [ty |-> "str",
                            s |-> <<"d", "e", "g", "r", "a", "d", "i", "n",
                                    "g">>]]]

OnlyLoad ==
  \A k \in DOMAIN ResourcesBefore :
    (Len(k) >= 5 /\ SubSeq(k, Len(k) - 4, Len(k)) = <<":", "l", "o", "a", "d">>)
      => k = <<"c", "p", "u", ":", "l", "o", "a", "d">>

C10_TicketsListing ==
  (last.op = "get_tickets" /\ HoldsArray(TicketsBefore, "tickets")) =>
    LET T == TicketsBefore.val.o.tickets.a
    IN  /\ Len(last.ret) = (IF Len(T) < 100 THEN Len(T) ELSE 100)
        /\ \A i \in 1..Len(last.ret) : last.ret[i] = T[i]
        /\ TicketsFile = TicketsBefore

C10_Witness ==
  /\ last.op = "get_tickets"
  /\ HoldsArray(TicketsBefore, "tickets")
  /\ Len(TicketsBefore.val.o.tickets.a) > 100
  /\ Len(last.ret) = 100

====
